---- MODULE Spec2Model ----
(***************************************************************************)
(* Model of the upload and feed endpoints of app/routers/files.py.         *)
(*                                                                         *)
(* Every upload request walks through upload_file one await point (or one  *)
(* synchronous block) at a time, so that concurrent requests interleave    *)
(* where the event loop, or a second worker process, lets them.  The       *)
(* storage directory and the posts table are shared by all requests.       *)
(*                                                                         *)
(* Fault model: session.commit() and session.refresh() may raise           *)
(* SQLAlchemyError; the two reads of get_feed may raise SQLAlchemyError;   *)
(* session.rollback(), the file system calls and file.close() do not fail. *)
(* uuid4() never returns a value twice.  The database runs the count      *)
(* query of get_feed either on the rows committed when it starts (READ     *)
(* COMMITTED) or on the rows its transaction first saw (snapshot           *)
(* isolation), and returns rows that tie on the ORDER BY key in any order. *)
(* Strings are sequences of one-character strings, Optional[x] is a        *)
(* sequence of length 0 (None) or 1.                                       *)
(***************************************************************************)
EXTENDS Integers, Sequences, FiniteSets, TLC

\* ---------------------------------------------------------------- bounds
\* upload requests in flight at once
NumUploads == 2
\* ticks of the clock that stamps created_at
MaxClock == 1
\* largest offset a feed request asks for
MaxOffset == 2

Uploads == 1..NumUploads

\* ------------------------------------------------------- Optional values
None == <<>>
Some(x) == <<x>>
Get(opt) == opt[1]

\* ------------------------------------------------------------- constants
\* app/core/config.py
MAX_UPLOAD_SIZE_BYTES == 5 * 1024 * 1024

ImageJpeg == <<"i","m","a","g","e","/","j","p","e","g">>
ImagePng == <<"i","m","a","g","e","/","p","n","g">>
ImageWebp == <<"i","m","a","g","e","/","w","e","b","p">>
ALLOWED_UPLOAD_CONTENT_TYPES == {ImageJpeg, ImagePng, ImageWebp}

\* ---------------------------------------------------------- str methods
Whitespace == {" ", "\t", "\n", "\r"}

UpperChars == <<"A","B","C","D","E","F","G","H","I","J","K","L","M",
                "N","O","P","Q","R","S","T","U","V","W","X","Y","Z">>
LowerChars == <<"a","b","c","d","e","f","g","h","i","j","k","l","m",
                "n","o","p","q","r","s","t","u","v","w","x","y","z">>

LowerChar(c) ==
    IF \E i \in 1..Len(UpperChars) : UpperChars[i] = c
    THEN LowerChars[CHOOSE i \in 1..Len(UpperChars) : UpperChars[i] = c]
    ELSE c

\* str.lower()
Lower(s) == [i \in 1..Len(s) |-> LowerChar(s[i])]

RECURSIVE LStrip(_)
LStrip(s) ==
    IF s # <<>> /\ Head(s) \in Whitespace THEN LStrip(Tail(s)) ELSE s

RECURSIVE RStrip(_)
RStrip(s) ==
    IF s # <<>> /\ s[Len(s)] \in Whitespace
    THEN RStrip(SubSeq(s, 1, Len(s) - 1))
    ELSE s

\* str.strip()
Strip(s) == RStrip(LStrip(s))

\* x or ""
OrEmpty(opt) == IF opt = None THEN <<>> ELSE Get(opt)

\* 1-based index of the last occurrence of c in s, 0 when there is none
\* (str.rfind, shifted by one)
RFind(s, c) ==
    IF \E i \in 1..Len(s) : s[i] = c
    THEN CHOOSE i \in 1..Len(s) :
            s[i] = c /\ \A j \in (i + 1)..Len(s) : s[j] # c
    ELSE 0

\* pathlib: PurePath(p).name, the final path component
PathName(p) == SubSeq(p, RFind(p, "/") + 1, Len(p))

\* pathlib: PurePath(p).suffix
PathSuffix(p) ==
    LET name == PathName(p)
        i == RFind(name, ".")
    IN IF 1 < i /\ i < Len(name) THEN SubSeq(name, i, Len(name)) ELSE <<>>

\* ------------------------------------------------------- request inputs
TextPlain == <<"t","e","x","t","/","p","l","a","i","n">>
PaddedUpperJpeg == <<" ","I","M","A","G","E","/","J","P","E","G","\n">>

\* file.content_type as the client declares it
ContentTypes == {None, Some(TextPlain), Some(ImageJpeg), Some(PaddedUpperJpeg)}

\* length of the uploaded payload
Sizes == {0, 1, MAX_UPLOAD_SIZE_BYTES, MAX_UPLOAD_SIZE_BYTES + 1,
          2 * MAX_UPLOAD_SIZE_BYTES}

\* file.filename and the caption form field
Forms == {[filename |-> None, caption |-> <<" ">>],
          [filename |-> Some(<<"d","/","a",".","J","P","G">>),
           caption |-> <<" ","h","i">>],
          [filename |->
               Some(<<"a",".","a","b","c","d","e","f","g","h","i","j","k">>),
           caption |-> <<"\t">>]}

UploadRequest(ct, n, form) ==
    [content_type |-> ct, size |-> n, filename |-> form.filename,
     caption |-> form.caption]

\* every combination of declared type and payload length
AnyRequests ==
    {UploadRequest(ct, n, CHOOSE f \in Forms : f.filename = None) :
        ct \in ContentTypes, n \in Sizes}

\* a request for each outcome of the validation, and every form on a
\* request that passes
MixedRequests ==
    LET form == CHOOSE f \in Forms : f.filename = None
    IN {UploadRequest(Some(TextPlain), MAX_UPLOAD_SIZE_BYTES, form),
        UploadRequest(Some(PaddedUpperJpeg), 0, form),
        UploadRequest(Some(PaddedUpperJpeg), MAX_UPLOAD_SIZE_BYTES + 1, form)}
       \cup {UploadRequest(Some(PaddedUpperJpeg), MAX_UPLOAD_SIZE_BYTES, f) :
                f \in Forms}

\* a request that passes validation
ImageRequests ==
    {UploadRequest(Some(ImageJpeg), 1,
                   CHOOSE f \in Forms : f.filename # None /\ f.caption # <<" ">>
                                        /\ Len(f.filename[1]) < 10)}

\* limit: int = Query(ge=1, le=100)
MinLimit == 1
MaxLimit == 100
Limits == {MinLimit, MinLimit + 1, MaxLimit}
\* offset: int = Query(ge=0)
Offsets == 0..MaxOffset

VARIABLES
    pc,            \* position of each upload request in upload_file
    file,          \* the UploadFile of each request and its caption
    closed,        \* whether the UploadFile of each request was closed
    content_type,  \* local of upload_file
    content,       \* local of upload_file: number of bytes read
    stored_name,   \* local of upload_file
    post,          \* local of upload_file: the ORM object
    resp,          \* what upload_file returned or raised
    dirExists,     \* UPLOAD_DIR exists
    files,         \* files of UPLOAD_DIR: name -> number of bytes
    posts,         \* rows of the posts table
    clock,         \* datetime.utcnow()
    feed_pc,       \* position of the feed request in get_feed
    limit,         \* parameter of get_feed
    offset,        \* parameter of get_feed
    page,          \* local of get_feed: the rows of the page query
    seen,          \* the rows the transaction of get_feed saw at its page query
    feed_resp,     \* what get_feed returned or raised
    scan           \* a client paging through the feed

vars == <<pc, file, closed, content_type, content, stored_name, post, resp,
          dirExists, files, posts, clock, feed_pc, limit, offset, page, seen,
          feed_resp, scan>>

uploadLocals == <<file, content_type, content, stored_name, post>>
shared == <<dirExists, files, posts>>
feedVars == <<feed_pc, limit, offset, page, seen, feed_resp>>
uploadVars == <<pc, uploadLocals, closed, resp>>

NoFile == [content_type |-> None, size |-> 0, filename |-> None,
           caption |-> <<>>]
NoResponse == [status |-> 0, raised |-> "", post |-> None]
\* raise HTTPException(status_code=code)
HttpError(code) == [status |-> code, raised |-> "HTTPException", post |-> None]
\* an exception that is no HTTPException leaves the handler: the server
\* answers 500 on its own
Unhandled(exc) == [status |-> 500, raised |-> exc, post |-> None]

NoFeedResponse ==
    [status |-> 0, posts |-> <<>>, limit |-> 0, offset |-> 0, total |-> 0]
NoScan == [state |-> "idle", k |-> 0, acc |-> <<>>, base |-> {}]

Init ==
    /\ pc = [r \in Uploads |-> "idle"]
    /\ file = [r \in Uploads |-> NoFile]
    /\ closed = [r \in Uploads |-> FALSE]
    /\ content_type = [r \in Uploads |-> None]
    /\ content = [r \in Uploads |-> 0]
    /\ stored_name = [r \in Uploads |-> None]
    /\ post = [r \in Uploads |-> None]
    /\ resp = [r \in Uploads |-> NoResponse]
    /\ dirExists = FALSE
    /\ files = <<>>
    /\ posts = {}
    /\ clock = 0
    /\ feed_pc = "idle"
    /\ limit = 0
    /\ offset = 0
    /\ page = <<>>
    /\ seen = {}
    /\ feed_resp = NoFeedResponse
    /\ scan = NoScan

\* --------------------------------------------------------------- helpers
\* _validate_upload_file_type: the normalized type, None when it raises 415
ValidateUploadFileType(f) ==
    LET ct == Lower(Strip(OrEmpty(f.content_type)))
    IN IF ct \notin ALLOWED_UPLOAD_CONTENT_TYPES THEN None ELSE Some(ct)

\* await file.read(n): number of bytes returned
FileRead(f, n) == IF f.size < n THEN f.size ELSE n

\* a payload of exactly the maximum is taken for too large
ReadFileContentStatus_OffByOne(n) ==
    IF n = 0 THEN 400
    ELSE IF n >= MAX_UPLOAD_SIZE_BYTES THEN 413
    ELSE 0

\* the checks of _read_file_content on the bytes read: 0 when it returns
ReadFileContentStatus(n) ==
    IF n = 0 THEN 400
    ELSE IF n > MAX_UPLOAD_SIZE_BYTES THEN 413
    ELSE 0

\* uuid4(): a value no other call returns.  The values are named after the
\* call that draws them: the k-th call made on behalf of request r.
Uuid4(r, k) == [req |-> r, call |-> k]

\* a storage name made of the time of the upload
BuildStorageName_ByTime(r, original_filename) ==
    LET suffix == Lower(PathSuffix(OrEmpty(original_filename)))
    IN [hex |-> [req |-> 0, call |-> clock],
        suffix |-> IF Len(suffix) > 10 THEN <<>> ELSE suffix]

\* _build_storage_name
BuildStorageName(r, original_filename) ==
    LET suffix == Lower(PathSuffix(OrEmpty(original_filename)))
    IN [hex |-> Uuid4(r, 1),
        suffix |-> IF Len(suffix) > 10 THEN <<>> ELSE suffix]

\* f"/uploads/{stored_name}"
UploadsUrl(name) == [prefix |-> "/uploads/", name |-> name]

\* the last path segment of a url
LastSegment(url) == url.name

\* _ensure_upload_dir
EnsureUploadDir == dirExists' = TRUE

\* Path.write_bytes
WriteBytes(fs, name, n) ==
    [x \in DOMAIN fs \cup {name} |-> IF x = name THEN n ELSE fs[x]]

Remove(fs, name) == [x \in DOMAIN fs \ {name} |-> fs[x]]

\* Path.unlink(): FileNotFoundError when the file is gone
Unlink_Strict(fs, name) ==
    [files |-> Remove(fs, name), raised |-> name \notin DOMAIN fs]

\* Path.unlink(missing_ok=True): the directory afterwards and whether
\* FileNotFoundError was raised
Unlink(fs, name) == [files |-> Remove(fs, name), raised |-> FALSE]

\* str(post.id)
Str(id) == [str |-> id]

\* _serialize_post
SerializePost(p) ==
    [id |-> Str(Get(p.id)), caption |-> p.caption, url |-> p.url,
     file_type |-> p.file_type, file_name |-> p.file_name,
     created_at |-> p.created_at]

\* ------------------------------------------------------------ upload_file
\* The framework hands a parsed multipart request to upload_file.
ReceiveFrom(r, requests) ==
    /\ pc[r] = "idle"
    /\ \E q \in requests : file' = [file EXCEPT ![r] = q]
    /\ pc' = [pc EXCEPT ![r] = "validate"]
    /\ UNCHANGED <<closed, content_type, content, stored_name, post, resp,
                   shared, clock, feedVars, scan>>

Receive(r) == ReceiveFrom(r, MixedRequests)
ReceiveAny(r) == ReceiveFrom(r, AnyRequests)
ReceiveImage(r) == ReceiveFrom(r, ImageRequests)

\* the handler is left: its locals are gone
Leave(r, response) ==
    /\ resp' = [resp EXCEPT ![r] = response]
    /\ pc' = [pc EXCEPT ![r] = "done"]
    /\ file' = [file EXCEPT ![r] = NoFile]
    /\ content_type' = [content_type EXCEPT ![r] = None]
    /\ content' = [content EXCEPT ![r] = 0]
    /\ stored_name' = [stored_name EXCEPT ![r] = None]
    /\ post' = [post EXCEPT ![r] = None]

\* line 112
Validate(r) ==
    /\ pc[r] = "validate"
    /\ LET ct == ValidateUploadFileType(file[r])
       IN IF ct = None
          THEN Leave(r, HttpError(415))
          ELSE /\ content_type' = [content_type EXCEPT ![r] = ct]
               /\ pc' = [pc EXCEPT ![r] = "read"]
               /\ UNCHANGED <<file, content, stored_name, post, resp>>
    /\ UNCHANGED <<closed, shared, clock, feedVars, scan>>

\* the payload is spooled to the storage directory before its size is checked
ReadFileContent_WriteFirst(r) ==
    /\ pc[r] = "read"
    /\ LET n == FileRead(file[r], MAX_UPLOAD_SIZE_BYTES + 1)
           code == ReadFileContentStatus(n)
       IN /\ files' = WriteBytes(files,
                                 BuildStorageName(r, file[r].filename), n)
          /\ IF code # 0
             THEN Leave(r, HttpError(code))
             ELSE /\ content' = [content EXCEPT ![r] = n]
                  /\ pc' = [pc EXCEPT ![r] = "write"]
                  /\ UNCHANGED <<file, content_type, stored_name, post, resp>>
    /\ UNCHANGED <<closed, dirExists, posts, clock, feedVars, scan>>

\* line 113
ReadFileContent(r) ==
    /\ pc[r] = "read"
    /\ LET n == FileRead(file[r], MAX_UPLOAD_SIZE_BYTES + 1)
           code == ReadFileContentStatus(n)
       IN IF code # 0
          THEN Leave(r, HttpError(code))
          ELSE /\ content' = [content EXCEPT ![r] = n]
               /\ pc' = [pc EXCEPT ![r] = "write"]
               /\ UNCHANGED <<file, content_type, stored_name, post, resp>>
    /\ UNCHANGED <<closed, shared, clock, feedVars, scan>>

\* lines 114-128: no await in between
Write(r) ==
    /\ pc[r] = "write"
    /\ EnsureUploadDir
    /\ LET name == BuildStorageName(r, file[r].filename)
           c == Strip(file[r].caption)
       IN /\ stored_name' = [stored_name EXCEPT ![r] = Some(name)]
          /\ files' = WriteBytes(files, name, content[r])
          /\ post' = [post EXCEPT ![r] =
                 Some([id |-> None,
                       caption |-> IF c = <<>> THEN None ELSE Some(c),
                       url |-> UploadsUrl(name),
                       file_type |-> Get(content_type[r]),
                       file_name |-> name,
                       created_at |-> None])]
    /\ pc' = [pc EXCEPT ![r] = "commit"]
    /\ UNCHANGED <<file, closed, content_type, content, resp, posts, clock,
                   feedVars, scan>>

\* line 129, succeeding: the flush fills the column defaults (db_model.py)
\* and the row is committed
CommitOk(r) ==
    /\ pc[r] = "commit"
    /\ LET row == [Get(post[r]) EXCEPT !.id = Some(Uuid4(r, 2)),
                                       !.created_at = Some(clock)]
       IN /\ posts' = posts \cup {row}
          /\ post' = [post EXCEPT ![r] = Some(row)]
    /\ pc' = [pc EXCEPT ![r] = "refresh"]
    /\ UNCHANGED <<file, closed, content_type, content, stored_name, resp,
                   dirExists, files, clock, feedVars, scan>>

\* line 129, raising SQLAlchemyError: nothing is committed
CommitFail(r) ==
    /\ pc[r] = "commit"
    /\ pc' = [pc EXCEPT ![r] = "rollback"]
    /\ UNCHANGED <<uploadLocals, closed, resp, shared, clock, feedVars, scan>>

\* line 130, succeeding: the object is reloaded from its row
RefreshOk(r) ==
    /\ pc[r] = "refresh"
    /\ \E row \in posts :
          /\ row.id = Get(post[r]).id
          /\ post' = [post EXCEPT ![r] = Some(row)]
    /\ pc' = [pc EXCEPT ![r] = "close"]
    /\ UNCHANGED <<file, closed, content_type, content, stored_name, resp,
                   shared, clock, feedVars, scan>>

\* line 130, raising SQLAlchemyError: the row stays committed
RefreshFail(r) ==
    /\ pc[r] = "refresh"
    /\ pc' = [pc EXCEPT ![r] = "rollback"]
    /\ UNCHANGED <<uploadLocals, closed, resp, shared, clock, feedVars, scan>>

\* line 132: rolls back what is not committed
Rollback(r) ==
    /\ pc[r] = "rollback"
    /\ pc' = [pc EXCEPT ![r] = "cleanup"]
    /\ UNCHANGED <<uploadLocals, closed, resp, shared, clock, feedVars, scan>>

\* lines 133-138: the compensating delete; then HTTPException(500), or the
\* FileNotFoundError of the delete, is on its way through the finally clause
Cleanup(r) ==
    /\ pc[r] = "cleanup"
    /\ LET u == Unlink(files, Get(stored_name[r]))
       IN /\ files' = u.files
          /\ pc' = [pc EXCEPT ![r] =
                        IF u.raised THEN "close_crash" ELSE "close_error"]
    /\ UNCHANGED <<uploadLocals, closed, resp, dirExists, posts, clock,
                   feedVars, scan>>

\* line 140 on the way out of the except clause, then the exception leaves
CloseError(r) ==
    /\ pc[r] \in {"close_error", "close_crash"}
    /\ closed' = [closed EXCEPT ![r] = TRUE]
    /\ Leave(r, IF pc[r] = "close_error" THEN HttpError(500)
                ELSE Unhandled("FileNotFoundError"))
    /\ UNCHANGED <<shared, clock, feedVars, scan>>

\* the compensating delete sits in the finally clause
Close_Unlink(r) ==
    /\ pc[r] = "close"
    /\ closed' = [closed EXCEPT ![r] = TRUE]
    /\ files' = Unlink(files, Get(stored_name[r])).files
    /\ Leave(r, [status |-> 201, raised |-> "",
                 post |-> Some(SerializePost(Get(post[r])))])
    /\ UNCHANGED <<dirExists, posts, clock, feedVars, scan>>

\* line 140 after the try block, then lines 142-145
Close(r) ==
    /\ pc[r] = "close"
    /\ closed' = [closed EXCEPT ![r] = TRUE]
    /\ Leave(r, [status |-> 201, raised |-> "",
                 post |-> Some(SerializePost(Get(post[r])))])
    /\ UNCHANGED <<shared, clock, feedVars, scan>>

\* time passes
Tick ==
    /\ clock < MaxClock
    /\ clock' = clock + 1
    /\ UNCHANGED <<uploadVars, shared, feedVars, scan>>

\* someone else removes a file from the storage directory
ExternalRemove ==
    /\ \E name \in DOMAIN files : files' = Remove(files, name)
    /\ UNCHANGED <<uploadVars, dirExists, posts, clock, feedVars, scan>>

\* --------------------------------------------------------------- get_feed
Min(a, b) == IF a < b THEN a ELSE b
Max(a, b) == IF a > b THEN a ELSE b

\* ORDER BY created_at DESC: every order of the rows in which created_at
\* never increases; rows with equal created_at come in any order
Orderings(tbl) ==
    {s \in [1..Cardinality(tbl) -> tbl] :
        /\ \A i, j \in DOMAIN s : i # j => s[i] # s[j]
        /\ \A i, j \in DOMAIN s :
              i < j => Get(s[i].created_at) >= Get(s[j].created_at)}

\* LIMIT and OFFSET without the offset
LimitOffset_NoOffset(s, lim, off) == SubSeq(s, 1, Min(lim, Len(s)))

\* LIMIT lim OFFSET off
LimitOffset(s, lim, off) ==
    IF off >= Len(s) THEN <<>> ELSE SubSeq(s, off + 1, Min(off + lim, Len(s)))

\* the rows the page query (lines 162-168) may return
PageQuery(tbl, lim, off) == {LimitOffset(s, lim, off) : s \in Orderings(tbl)}

\* select(func.count(Post.id)), line 169
CountQuery(tbl) == Cardinality(tbl)

\* lines 177-182
FeedResponse(rows, lim, off, n) ==
    [status |-> 200,
     posts |-> [i \in DOMAIN rows |-> SerializePost(rows[i])],
     limit |-> lim, offset |-> off, total |-> n]

FeedError ==
    [status |-> 500, posts |-> <<>>, limit |-> 0, offset |-> 0, total |-> 0]

\* a feed request whose parameters passed the Query(...) validation
FeedCall(lim, off) ==
    /\ feed_pc' = "page"
    /\ limit' = lim
    /\ offset' = off
    /\ page' = <<>>
    /\ seen' = {}
    /\ feed_resp' = NoFeedResponse

FeedReceive ==
    /\ feed_pc = "idle"
    /\ \E lim \in Limits, off \in Offsets : FeedCall(lim, off)
    /\ UNCHANGED <<uploadVars, shared, clock, scan>>

\* lines 162-168, succeeding
FeedPageOk ==
    /\ feed_pc = "page"
    /\ \E rows \in PageQuery(posts, limit, offset) : page' = rows
    /\ seen' = posts
    /\ feed_pc' = "count"
    /\ UNCHANGED <<uploadVars, shared, clock, limit, offset, feed_resp, scan>>

\* the handler leaves by lines 170-175
FeedFail ==
    /\ feed_resp' = FeedError
    /\ feed_pc' = "done"
    /\ page' = <<>>
    /\ UNCHANGED <<uploadVars, shared, clock, limit, offset, seen, scan>>

\* line 168, raising SQLAlchemyError
FeedPageFail ==
    /\ feed_pc = "page"
    /\ FeedFail

\* the size of the page is taken for the total
FeedCountOk_PageLength ==
    /\ feed_pc = "count"
    /\ feed_resp' = FeedResponse(page, limit, offset, Len(page))
    /\ feed_pc' = "done"
    /\ page' = <<>>
    /\ UNCHANGED <<uploadVars, shared, clock, limit, offset, seen, scan>>

\* line 169, succeeding, then lines 177-182
FeedCountOk ==
    /\ feed_pc = "count"
    /\ \E tbl \in {posts, seen} :
          feed_resp' = FeedResponse(page, limit, offset, CountQuery(tbl))
    /\ feed_pc' = "done"
    /\ page' = <<>>
    /\ UNCHANGED <<uploadVars, shared, clock, limit, offset, seen, scan>>

\* line 169, raising SQLAlchemyError
FeedCountFail ==
    /\ feed_pc = "count"
    /\ FeedFail

\* ------------------------------------------------- a client paging the feed
\* The client asks for the pages of k posts at offsets 0, k, 2k, ... one
\* after the other, and stops behind the page that reaches the total.
ScanStart ==
    /\ scan.state = "idle"
    /\ feed_pc = "idle"
    /\ \E k \in {MinLimit, MinLimit + 1} :
          /\ scan' = [state |-> "scanning", k |-> k, acc |-> <<>>,
                      base |-> posts]
          /\ FeedCall(k, 0)
    /\ UNCHANGED <<uploadVars, shared, clock>>

ScanNext ==
    /\ scan.state = "scanning"
    /\ feed_pc = "done"
    /\ IF feed_resp.status # 200
       THEN /\ scan' = [scan EXCEPT !.state = "failed"]
            /\ UNCHANGED feedVars
       ELSE LET acc == scan.acc \o feed_resp.posts
            IN IF offset + scan.k < feed_resp.total
               THEN /\ scan' = [scan EXCEPT !.acc = acc]
                    /\ FeedCall(scan.k, offset + scan.k)
               ELSE /\ scan' = [scan EXCEPT !.acc = acc, !.state = "finished"]
                    /\ UNCHANGED feedVars
    /\ UNCHANGED <<uploadVars, shared, clock>>

\* -------------------------------------------------------- specifications
UploadStep(r) ==
    \/ Validate(r)
    \/ ReadFileContent(r)
    \/ Write(r)
    \/ CommitOk(r)
    \/ CommitFail(r)
    \/ RefreshOk(r)
    \/ RefreshFail(r)
    \/ Rollback(r)
    \/ Cleanup(r)
    \/ CloseError(r)
    \/ Close(r)

\* the steps of an upload that meets no storage error
UploadOkStep(r) ==
    \/ Validate(r)
    \/ ReadFileContent(r)
    \/ Write(r)
    \/ CommitOk(r)
    \/ RefreshOk(r)
    \/ Close(r)

FeedStep ==
    \/ FeedPageOk
    \/ FeedPageFail
    \/ FeedCountOk
    \/ FeedCountFail

\* concurrent uploads of every kind
Next ==
    \/ \E r \in Uploads : Receive(r)
    \/ \E r \in Uploads : UploadStep(r)
    \/ Tick

Spec == Init /\ [][Next]_vars

\* the validation of upload_file on every declared type and payload length
NextValidation ==
    \/ \E r \in Uploads : ReceiveAny(r)
    \/ \E r \in Uploads : Validate(r)
    \/ \E r \in Uploads : ReadFileContent(r)

SpecValidation == Init /\ [][NextValidation]_vars

\* concurrent uploads while files disappear from the storage directory
NextExternal ==
    \/ \E r \in Uploads : ReceiveImage(r)
    \/ \E r \in Uploads : UploadStep(r)
    \/ ExternalRemove

SpecExternal == Init /\ [][NextExternal]_vars

\* a feed request concurrent with uploads.  The uploads are those that meet
\* no storage error: a failing upload changes the posts table no further
\* than its commit did.
NextFeed ==
    \/ \E r \in Uploads : ReceiveImage(r)
    \/ \E r \in Uploads : UploadOkStep(r)
    \/ Tick
    \/ FeedReceive
    \/ FeedStep

SpecFeed == Init /\ [][NextFeed]_vars

\* a client paging through the feed, concurrent with uploads
NextScan ==
    \/ \E r \in Uploads : ReceiveImage(r)
    \/ \E r \in Uploads : UploadOkStep(r)
    \/ Tick
    \/ ScanStart
    \/ FeedStep
    \/ ScanNext

SpecScan == Init /\ [][NextScan]_vars
\* ------------------------------------------------------------ properties
Rejected == {415, 400, 413}

\* C1: every step of an upload request up to and including its rejection
\* by validation (415, 400 or 413) leaves the storage directory and the
\* posts table as they are, and a rejection is raised only from those steps:
\* a rejected upload writes no file and creates no record.
C1_RejectedUploadChangesNothing ==
    [][\A r \in Uploads :
          /\ (pc[r] \in {"idle", "validate", "read"} /\ pc'[r] # pc[r])
                => UNCHANGED <<dirExists, files, posts>>
          /\ (resp[r].status = 0 /\ resp'[r].status \in Rejected)
                => /\ pc[r] \in {"validate", "read"}
                   /\ stored_name[r] = None
                   /\ post[r] = None]_vars

C1_Witness ==
    \E r \in Uploads :
        /\ resp[r].status \in Rejected
        /\ DOMAIN files # {}
        /\ posts # {}

\* C2: once an upload has answered 201, a file exists in the storage
\* directory under the returned file_name, which is the last segment of the
\* returned url, and exactly one row of the posts table has that file_name.
C2_SuccessHasOneFileOneRecord ==
    \A r \in Uploads :
        resp[r].status = 201 =>
            LET p == Get(resp[r].post)
            IN /\ LastSegment(p.url) = p.file_name
               /\ p.file_name \in DOMAIN files
               /\ Cardinality({row \in posts : row.file_name = p.file_name}) = 1

C2_Witness ==
    /\ \A r \in Uploads : resp[r].status = 201
    /\ Cardinality(posts) = NumUploads

\* C3: every row committed to the posts table has a file in the storage
\* directory under its file_name.
C3_EveryRecordHasItsFile ==
    \A row \in posts : row.file_name \in DOMAIN files

FailurePath == {"rollback", "cleanup", "close_error", "close_crash"}

\* C4: an upload whose commit or refresh raised answers with the generic
\* HTTPException(500), and when it answers the file it wrote is not in the
\* storage directory; this is so also when the file was gone before the
\* compensating delete ran.
C4_FailedUploadRemovesItsFile ==
    [][\A r \in Uploads :
          (pc[r] \in FailurePath /\ pc'[r] = "done") =>
              /\ resp'[r] = HttpError(500)
              /\ Get(stored_name[r]) \notin DOMAIN files']_vars

C4_Witness ==
    \E r \in Uploads : resp[r] = HttpError(500) /\ closed[r]

\* C5: whenever upload_file has returned or raised, the uploaded file has
\* been closed.
C5_FileClosedOnEveryExit ==
    \A r \in Uploads : pc[r] = "done" => closed[r]

\* C6: a feed request that meets no storage error, on a posts table of N
\* rows that does not change between its two queries, returns
\* min(k, max(0, N - o)) posts in descending order of created_at, echoes
\* limit k and offset o, and returns total = N.
C6_FeedPageSizeAndTotal ==
    [][(feed_pc = "count" /\ feed_resp'.status = 200 /\ seen = posts) =>
          LET N == Cardinality(posts)
              out == feed_resp'.posts
          IN /\ Len(out) = Min(limit, Max(0, N - offset))
             /\ \A i, j \in DOMAIN out :
                   i < j => Get(out[i].created_at) >= Get(out[j].created_at)
             /\ feed_resp'.limit = limit
             /\ feed_resp'.offset = offset
             /\ feed_resp'.total = N]_vars

C6_Witness ==
    /\ feed_resp.status = 200
    /\ seen = posts
    /\ Cardinality(posts) = 2
    /\ feed_resp.offset = 1
    /\ feed_resp.limit = 2
    /\ Len(feed_resp.posts) = 1
    /\ feed_resp.total = 2

\* the posts of a finished scan, by id
ScanIds == [i \in DOMAIN scan.acc |-> scan.acc[i].id]

\* C7: when a client has fetched the pages of k posts at offsets 0, k, 2k,
\* ... of a posts table that did not change meanwhile, the pages put
\* together hold every row exactly once, in descending order of created_at.
C7_ScanYieldsEveryRecordOnce ==
    (scan.state = "finished" /\ scan.base = posts) =>
        /\ Len(scan.acc) = Cardinality(posts)
        /\ \A row \in posts :
              \E i \in DOMAIN scan.acc : ScanIds[i] = Str(Get(row.id))
        /\ \A i, j \in DOMAIN scan.acc : i # j => ScanIds[i] # ScanIds[j]
        /\ \A i, j \in DOMAIN scan.acc :
              i < j => Get(scan.acc[i].created_at)
                          >= Get(scan.acc[j].created_at)

\* the declared type is outside the allow-list
OutsideAllowList(f) ==
    Lower(Strip(OrEmpty(f.content_type))) \notin ALLOWED_UPLOAD_CONTENT_TYPES

\* the outcome the validation order prescribes: 0 for a pass
ExpectedOutcome(f) ==
    IF OutsideAllowList(f) THEN 415
    ELSE IF f.size = 0 THEN 400
    ELSE IF f.size > MAX_UPLOAD_SIZE_BYTES THEN 413
    ELSE 0

\* C8: the validation answers 415 for a type outside the allow-list
\* whatever the payload, else 400 for an empty payload, else 413 for a
\* payload longer than the maximum, and lets a payload of 1 up to exactly
\* the maximum number of bytes through, whole.
C8_ValidationOrder ==
    [][\A r \in Uploads :
          /\ (pc[r] \in {"validate", "read"} /\ pc'[r] = "done")
                => resp'[r] = HttpError(ExpectedOutcome(file[r]))
          /\ (pc[r] = "validate" /\ pc'[r] = "read")
                => ExpectedOutcome(file[r]) # 415
          /\ (pc[r] = "read" /\ pc'[r] = "write")
                => /\ ExpectedOutcome(file[r]) = 0
                   /\ content'[r] = file[r].size]_vars

C8_Witness ==
    /\ \E r \in Uploads : pc[r] = "write" /\ content[r] = MAX_UPLOAD_SIZE_BYTES
    /\ \E r \in Uploads : resp[r].status = 413

\* C9: the name an upload writes to is the name of no file in the storage
\* directory, of no other upload in flight and of no row, and the
\* compensating delete of an upload removes no file but its own, whose name
\* no other upload in flight uses.
C9_NoPathCollision ==
    [][\A r \in Uploads :
          /\ (pc[r] = "write" /\ pc'[r] = "commit") =>
                LET name == Get(stored_name'[r])
                IN /\ name \notin DOMAIN files
                   /\ \A o \in Uploads \ {r} : stored_name[o] # Some(name)
                   /\ \A row \in posts : row.file_name # name
          /\ (pc[r] = "cleanup" /\ pc'[r] # "cleanup") =>
                /\ DOMAIN files \ DOMAIN files' \subseteq {Get(stored_name[r])}
                /\ \A o \in Uploads \ {r} :
                      stored_name[o] # stored_name[r]]_vars

C9_Witness ==
    \E r, o \in Uploads :
        /\ r # o
        /\ pc[r] = "close_error"
        /\ stored_name[o] # None
        /\ Get(stored_name[o]) \in DOMAIN files
        /\ Get(stored_name[o]).suffix = Get(stored_name[r]).suffix

\* C10: no step of a feed request changes the posts table or the storage
\* directory, and every feed response that returns a post satisfies
\* offset + number of posts returned <= total.
C10_FeedReadOnlyAndWithinTotal ==
    [][/\ feed_pc' # feed_pc => UNCHANGED <<dirExists, files, posts>>
       /\ (feed_resp'.status = 200 /\ Len(feed_resp'.posts) > 0) =>
             feed_resp'.offset + Len(feed_resp'.posts) <= feed_resp'.total]_vars

C10_Witness ==
    /\ feed_resp.status = 200
    /\ Len(feed_resp.posts) > 0
    /\ feed_resp.total > Cardinality(seen)
====
